---------------------------- MODULE Spec2Model ----------------------------
(***************************************************************************)
(* generate_index.py: a PEP 503 "simple" index built from the release      *)
(* assets of one GitHub repository.  Strings are sequences of one-         *)
(* character strings, so that normalisation, splitting, suffix tests and   *)
(* ordering are computed character by character as Python computes them.   *)
(***************************************************************************)
EXTENDS Integers, Sequences, FiniteSets, TLC

(***************************************************************************)
(* Bounds of the model.                                                    *)
(***************************************************************************)
\* the API serves at most MaxPages non-empty pages
MaxPages == 2
\* the API serves at most MaxReleases releases over all the pages of a run
MaxReleases == 3
\* normalize_name is applied to every string of 1..MaxLen characters
MaxLen == 4

\* `per_page=100` of the request URL
PER_PAGE == 100

(***************************************************************************)
(* Characters and string literals.                                         *)
(***************************************************************************)
\* the characters of the model's strings, in ascending code point order
CodePoints ==
    <<"#", "-", ".", "/", "0", "1", "2", "3", "4", "5", "6", "7", "8", "9",
      ":", "=", "A", "B", "C", "D", "E", "F", "G", "H", "I", "J", "K", "L",
      "M", "N", "O", "P", "Q", "R", "S", "T", "U", "V", "W", "X", "Y", "Z",
      "_", "a", "b", "c", "d", "e", "f", "g", "h", "i", "j", "k", "l", "m",
      "n", "o", "p", "q", "r", "s", "t", "u", "v", "w", "x", "y", "z">>
UpperCase ==
    <<"A", "B", "C", "D", "E", "F", "G", "H", "I", "J", "K", "L", "M", "N",
      "O", "P", "Q", "R", "S", "T", "U", "V", "W", "X", "Y", "Z">>
LowerCase ==
    <<"a", "b", "c", "d", "e", "f", "g", "h", "i", "j", "k", "l", "m", "n",
      "o", "p", "q", "r", "s", "t", "u", "v", "w", "x", "y", "z">>

WHL ==
    <<".", "w", "h", "l">>
SHA256_FRAGMENT ==
    <<"#", "s", "h", "a", "2", "5", "6", "=">>
UNKNOWN ==
    <<"u", "n", "k", "n", "o", "w", "n">>
PUBLIC ==
    <<"p", "u", "b", "l", "i", "c">>
SIMPLE ==
    <<"s", "i", "m", "p", "l", "e">>
INDEX_HTML ==
    <<"i", "n", "d", "e", "x", ".", "h", "t", "m", "l">>

\* asset names the modelled API serves
FA259 ==
    <<"f", "l", "a", "s", "h", "_", "a", "t", "t", "n", "-", "2", ".", "5",
      ".", "9", "-", "c", "p", "3", "1", "0", "-", "l", "i", "n", "u", "x",
      ".", "w", "h", "l">>
FA260 ==
    <<"f", "l", "a", "s", "h", "-", "a", "t", "t", "n", "-", "2", ".", "6",
      ".", "0", "-", "c", "p", "3", "1", "1", "-", "l", "i", "n", "u", "x",
      ".", "w", "h", "l">>
FA270 ==
    <<"F", "l", "a", "s", "h", ".", "A", "t", "t", "n", "-", "2", ".", "7",
      ".", "0", "-", "c", "p", "3", "1", "2", "-", "l", "i", "n", "u", "x",
      ".", "w", "h", "l">>
A_WHL ==
    <<"a", ".", "w", "h", "l">>
A_TAR_GZ ==
    <<"a", ".", "t", "a", "r", ".", "g", "z">>
B_WHL_UPPER ==
    <<"b", ".", "W", "H", "L">>
DASH_WHL ==
    <<"-", "1", ".", "0", ".", "w", "h", "l">>
README_TXT ==
    <<"r", "e", "a", "d", "m", "e", ".", "t", "x", "t">>
TAG_V1 ==
    <<"v", "1">>
UNTAGGED ==
    <<"u", "n", "t", "a", "g", "g", "e", "d">>
TAG_V3 ==
    <<"v", "3">>
TAG_V4 ==
    <<"v", "4">>
TAG_V5 ==
    <<"v", "5">>
TAG_V6 ==
    <<"v", "6">>
URL_BASE ==
    <<"h", "t", "t", "p", "s", ":", "/", "/", "g", "h", "/">>

(***************************************************************************)
(* The releases the modelled API can serve.  A release is a JSON object    *)
(* with an optional "tag_name" and an optional "assets" list; an asset     *)
(* has "name", "browser_download_url" and an optional "size".              *)
(***************************************************************************)
AssetUrl(dir, name) == URL_BASE \o dir \o <<"/">> \o name

Asset(dir, name, size) ==
    [name |-> name, browser_download_url |-> AssetUrl(dir, name), size |-> size]

\* an asset whose JSON object has no "size"
AssetNoSize(dir, name) ==
    [name |-> name, browser_download_url |-> AssetUrl(dir, name)]

Rel1 ==
    [tag_name |-> TAG_V1,
     assets |-> << Asset(TAG_V1, A_WHL, 3), Asset(TAG_V1, A_TAR_GZ, 5),
                   Asset(TAG_V1, B_WHL_UPPER, 7) >>]

\* a release whose JSON object has no "tag_name"
Rel2 ==
    [assets |-> << Asset(UNTAGGED, FA259, 100), AssetNoSize(UNTAGGED, FA260) >>]

Rel3 ==
    [tag_name |-> TAG_V3, assets |-> << Asset(TAG_V3, README_TXT, 9) >>]

Rel4 ==
    [tag_name |-> TAG_V4,
     assets |-> << Asset(TAG_V4, FA270, 100), Asset(TAG_V4, A_WHL, 3) >>]

Rel5 ==
    [tag_name |-> TAG_V5, assets |-> << Asset(TAG_V5, DASH_WHL, 1) >>]

\* a release whose JSON object has no "assets"
Rel6 ==
    [tag_name |-> TAG_V6]

ReleasePool == {Rel1, Rel2, Rel3, Rel4, Rel5, Rel6}

RECURSIVE SeqsUpTo(_, _)
SeqsUpTo(S, n) ==
    IF n = 0 THEN {<<>>}
    ELSE LET shorter == SeqsUpTo(S, n - 1)
         IN  shorter \cup {Append(s, x) : s \in shorter, x \in S}

\* the non-empty JSON arrays a page request can be answered with, when the
\* API has n more releases to serve
NonEmptyPages(n) == SeqsUpTo(ReleasePool, n) \ {<<>>}

(***************************************************************************)
(* Python str and list primitives.                                       *)
(***************************************************************************)
Min(S) == CHOOSE x \in S : \A y \in S : x <= y

\* the rank of ord(c) among the model's characters
Ord(c) == CHOOSE i \in 1..Len(CodePoints) : CodePoints[i] = c

\* a < b on str: lexicographic by code point
StrLess(a, b) ==
    \E i \in 1..(Len(b)) :
        /\ \A j \in 1..(i - 1) : j <= Len(a) /\ a[j] = b[j]
        /\ \/ i > Len(a)
           \/ i <= Len(a) /\ Ord(a[i]) < Ord(b[i])

\* str.lower() on one character
LowerChar(c) ==
    IF \E i \in 1..Len(UpperCase) : UpperCase[i] = c
    THEN LowerCase[CHOOSE i \in 1..Len(UpperCase) : UpperCase[i] = c]
    ELSE c

\* str.lower()
Lower(s) == [i \in 1..Len(s) |-> LowerChar(s[i])]

\* str.endswith(suffix)
EndsWith(s, suffix) ==
    /\ Len(s) >= Len(suffix)
    /\ SubSeq(s, Len(s) - Len(suffix) + 1, Len(s)) = suffix

\* str.split("-")[0]
SplitFirst(s) ==
    LET hyphens == {i \in 1..Len(s) : s[i] = "-"}
    IN  IF hyphens = {} THEN s ELSE SubSeq(s, 1, Min(hyphens) - 1)

\* the character class [-_.]
IsSeparator(c) == c \in {"-", "_", "."}

RECURSIVE SkipSeparators(_)
SkipSeparators(s) ==
    IF s # <<>> /\ IsSeparator(Head(s)) THEN SkipSeparators(Tail(s)) ELSE s

\* re.sub(r'[-_.]+', '-', s): every maximal run of separators becomes one "-"
RECURSIVE ReSubSeparators(_)
ReSubSeparators(s) ==
    IF s = <<>> THEN <<>>
    ELSE IF IsSeparator(Head(s))
         THEN <<"-">> \o ReSubSeparators(SkipSeparators(Tail(s)))
         ELSE <<Head(s)>> \o ReSubSeparators(Tail(s))

\* sorted() on a list of <<key, item>> pairs: ascending by key, stable
InsertByKey(x, s) ==
    LET k == Cardinality({i \in 1..Len(s) : ~StrLess(x[1], s[i][1])})
    IN  SubSeq(s, 1, k) \o <<x>> \o SubSeq(s, k + 1, Len(s))

RECURSIVE SortedByKey(_)
SortedByKey(s) ==
    IF s = <<>> THEN <<>>
    ELSE InsertByKey(s[Len(s)], SortedByKey(SubSeq(s, 1, Len(s) - 1)))

(***************************************************************************)
(* normalize_name                                                          *)
(***************************************************************************)
\* a regular expression without the "+": each separator replaced on its own
normalize_name_each(name) ==
    Lower([i \in 1..Len(name) |-> IF IsSeparator(name[i]) THEN "-" ELSE name[i]])

normalize_name(name) == Lower(ReSubSeparators(name))

(***************************************************************************)
(* extract_wheels                                                          *)
(***************************************************************************)
\* a suffix test that ignores case
IsWheelName_nocase(filename) == EndsWith(Lower(filename), WHL)

IsWheelName(filename) == EndsWith(filename, WHL)

\* the records one release contributes
ReleaseWheels(release) ==
    LET tag == IF "tag_name" \in DOMAIN release THEN release.tag_name ELSE UNKNOWN
        assets == IF "assets" \in DOMAIN release THEN release.assets ELSE <<>>
        kept == SelectSeq(assets, LAMBDA asset : IsWheelName(asset.name))
    IN  [i \in 1..Len(kept) |->
            [filename |-> kept[i].name,
             url |-> kept[i].browser_download_url,
             size |-> IF "size" \in DOMAIN kept[i] THEN kept[i].size ELSE 0,
             tag |-> tag]]

RECURSIVE extract_wheels(_)
extract_wheels(rels) ==
    IF rels = <<>> THEN <<>>
    ELSE extract_wheels(SubSeq(rels, 1, Len(rels) - 1)) \o ReleaseWheels(rels[Len(rels)])

(***************************************************************************)
(* Grouping (main, step 3).  A dict is its keys in insertion order and     *)
(* the value of each key.                                                  *)
(***************************************************************************)
EmptyDict == [keys |-> <<>>, vals |-> <<>>]

HasKey(d, k) == \E i \in 1..Len(d.keys) : d.keys[i] = k

\* the distribution name taken from the stem, the filename without ".whl"
name_part_stem(filename) ==
    SplitFirst(IF EndsWith(filename, WHL)
               THEN SubSeq(filename, 1, Len(filename) - Len(WHL))
               ELSE filename)

name_part(filename) == SplitFirst(filename)

\* grouping by the raw first segment
PackageKey_raw(filename) == name_part(filename)

PackageKey(filename) == normalize_name(name_part(filename))

AddWheel(d, wheel) ==
    LET normalized == PackageKey(wheel.filename)
    IN  IF HasKey(d, normalized)
        THEN [d EXCEPT !.vals = [k \in DOMAIN d.vals |->
                 IF k = normalized THEN Append(d.vals[k], wheel) ELSE d.vals[k]]]
        ELSE [keys |-> Append(d.keys, normalized),
              vals |-> [k \in DOMAIN d.vals \cup {normalized} |->
                 IF k = normalized THEN <<wheel>> ELSE d.vals[k]]]

RECURSIVE GroupWheels(_)
GroupWheels(ws) ==
    IF ws = <<>> THEN EmptyDict
    ELSE AddWheel(GroupWheels(SubSeq(ws, 1, Len(ws) - 1)), ws[Len(ws)])

(***************************************************************************)
(* The renderers.  A document is its title and its anchors in order.       *)
(***************************************************************************)
\* the anchors in dict order, no sort
generate_root_index_unsorted(packages) ==
    [kind |-> "root",
     repository_version |-> "1.0",
     links |-> [i \in 1..Len(packages) |->
                   [href |-> packages[i] \o <<"/">>, text |-> packages[i]]]]

generate_root_index(packages) ==
    LET ordered == SortedByKey([i \in 1..Len(packages) |-> <<packages[i], packages[i]>>])
    IN  [kind |-> "root",
         repository_version |-> "1.0",
         links |-> [i \in 1..Len(ordered) |->
                       [href |-> ordered[i][2] \o <<"/">>, text |-> ordered[i][2]]]]

generate_package_index(package_name, ws) ==
    LET sorted_wheels == SortedByKey([i \in 1..Len(ws) |-> <<ws[i].filename, ws[i]>>])
    IN  [kind |-> "package",
         repository_version |-> "1.0",
         title |-> package_name,
         links |-> [i \in 1..Len(sorted_wheels) |->
                       [href |-> sorted_wheels[i][2].url \o SHA256_FRAGMENT,
                        dist_info_metadata |-> "false",
                        text |-> sorted_wheels[i][2].filename]]]

generate_landing_page(packages, total_wheels) ==
    LET ordered == SortedByKey([i \in 1..Len(packages.keys) |->
                       <<packages.keys[i], packages.vals[packages.keys[i]]>>])
    IN  [kind |-> "landing",
         total_wheels |-> total_wheels,
         n_packages |-> Len(packages.keys),
         pkg_list |-> [i \in 1..Len(ordered) |->
                          [pkg |-> ordered[i][1], count |-> Len(ordered[i][2])]]]

(***************************************************************************)
(* pathlib and the filesystem.  A path is its sequence of components.      *)
(***************************************************************************)
\* Path / segment: joining an empty segment leaves the path as it is
PathJoin(path, segment) == IF segment = <<>> THEN path ELSE Append(path, segment)

\* every ancestor of a path, and the path itself
WithParents(path) == {SubSeq(path, 1, n) : n \in 1..Len(path)}

WriteText(fs, path, content) ==
    [p \in DOMAIN fs \cup {path} |-> IF p = path THEN content ELSE fs[p]]

OUTPUT_DIR == <<PUBLIC, SIMPLE>>

(***************************************************************************)
(* State.                                                                  *)
(***************************************************************************)
VARIABLES
    pc,          \* where main is: "fetch", "extract", "group", "mkdir", "root",
                 \* "packages", "done" (returned), "crashed" (uncaught exception)
    page,        \* get_all_releases: the page to request next
    requests,    \* the page requests issued so far, in order
    responses,   \* what the API answered to each of them
    releases,    \* get_all_releases: the releases accumulated
    wheels,      \* main: the result of extract_wheels
    packages,    \* main: the dict normalized name -> list of wheels
    root_html,   \* main: the document generate_root_index returned
    next_pkg,    \* main: position of the package loop in packages.keys
    dirs,        \* the filesystem: the directories that exist
    files,       \* the filesystem: path -> content
    fs_ops,      \* the mkdir and write_text calls of the run, in order
    exit_code,   \* what main returned; -1 until it returns
    nm_input,    \* the argument normalize_name is applied to
    nm_once,     \* normalize_name(nm_input)
    nm_twice,    \* normalize_name(normalize_name(nm_input))
    nm_calls     \* how many of the two applications were made

mainVars == <<pc, page, requests, responses, releases, wheels, packages,
              root_html, next_pkg, dirs, files, fs_ops, exit_code>>
normVars == <<nm_input, nm_once, nm_twice, nm_calls>>
vars == <<mainVars, normVars>>

NoDocument == [kind |-> "none"]

InitMain ==
    /\ pc = "fetch"
    /\ page = 1
    /\ requests = <<>>
    /\ responses = <<>>
    /\ releases = <<>>
    /\ wheels = <<>>
    /\ packages = EmptyDict
    /\ root_html = NoDocument
    /\ next_pkg = 1
    /\ dirs = {}
    /\ files = <<>>
    /\ fs_ops = <<>>
    /\ exit_code = -1

InitNorm ==
    /\ nm_input = <<>>
    /\ nm_once = <<>>
    /\ nm_twice = <<>>
    /\ nm_calls = 0

Init == InitMain /\ InitNorm

(***************************************************************************)
(* get_all_releases: one action per page request, by what the API answers. *)
(***************************************************************************)
PageRequest(n) == [page |-> n, per_page |-> PER_PAGE]

\* the page replaces what was accumulated instead of extending it
FetchPageOk_assign ==
    /\ pc = "fetch"
    /\ page <= MaxPages
    /\ \E data \in NonEmptyPages(MaxReleases - Len(releases)) :
        /\ requests' = Append(requests, PageRequest(page))
        /\ responses' = Append(responses, [kind |-> "ok", data |-> data])
        /\ releases' = data
    /\ page' = page + 1
    /\ UNCHANGED <<pc, wheels, packages, root_html, next_pkg, dirs, files,
                   fs_ops, exit_code, normVars>>

\* a non-empty page: extend releases, go on with the next page
FetchPageOk ==
    /\ pc = "fetch"
    /\ page <= MaxPages
    /\ \E data \in NonEmptyPages(MaxReleases - Len(releases)) :
        /\ requests' = Append(requests, PageRequest(page))
        /\ responses' = Append(responses, [kind |-> "ok", data |-> data])
        /\ releases' = releases \o data
    /\ page' = page + 1
    /\ UNCHANGED <<pc, wheels, packages, root_html, next_pkg, dirs, files,
                   fs_ops, exit_code, normVars>>

\* an empty page: `if not data: break`
FetchPageEmpty ==
    /\ pc = "fetch"
    /\ requests' = Append(requests, PageRequest(page))
    /\ responses' = Append(responses, [kind |-> "ok", data |-> <<>>])
    /\ pc' = "extract"
    /\ UNCHANGED <<page, releases, wheels, packages, root_html, next_pkg, dirs,
                   files, fs_ops, exit_code, normVars>>

\* urlopen raises HTTPError: `except HTTPError: break`
FetchHTTPError ==
    /\ pc = "fetch"
    /\ requests' = Append(requests, PageRequest(page))
    /\ responses' = Append(responses, [kind |-> "HTTPError", data |-> <<>>])
    /\ pc' = "extract"
    /\ UNCHANGED <<page, releases, wheels, packages, root_html, next_pkg, dirs,
                   files, fs_ops, exit_code, normVars>>

\* urlopen raises URLError (no connection, DNS failure, timeout): HTTPError is a
\* subclass of URLError, so `except HTTPError` does not catch it and it leaves
\* get_all_releases and main
FetchURLError ==
    /\ pc = "fetch"
    /\ requests' = Append(requests, PageRequest(page))
    /\ responses' = Append(responses, [kind |-> "URLError", data |-> <<>>])
    /\ pc' = "crashed"
    /\ UNCHANGED <<page, releases, wheels, packages, root_html, next_pkg, dirs,
                   files, fs_ops, exit_code, normVars>>

(***************************************************************************)
(* main                                                                    *)
(***************************************************************************)
\* extraction without the `if not wheels: return 1`
ExtractStep_nocheck ==
    /\ pc = "extract"
    /\ wheels' = extract_wheels(releases)
    /\ pc' = "group"
    /\ UNCHANGED <<page, requests, responses, releases, packages, root_html,
                   next_pkg, dirs, files, fs_ops, exit_code, normVars>>

\* [2/4] extract the wheels; return 1 when there is none
ExtractStep ==
    /\ pc = "extract"
    /\ wheels' = extract_wheels(releases)
    /\ IF wheels' = <<>>
       THEN pc' = "done" /\ exit_code' = 1
       ELSE pc' = "group" /\ exit_code' = exit_code
    /\ UNCHANGED <<page, requests, responses, releases, packages, root_html,
                   next_pkg, dirs, files, fs_ops, normVars>>

\* [3/4] group the wheels by normalized package name
GroupStep ==
    /\ pc = "group"
    /\ packages' = GroupWheels(wheels)
    /\ pc' = "mkdir"
    /\ UNCHANGED <<page, requests, responses, releases, wheels, root_html,
                   next_pkg, dirs, files, fs_ops, exit_code, normVars>>

\* [4/4] output_dir.mkdir(parents=True, exist_ok=True)
MkdirOutput ==
    /\ pc = "mkdir"
    /\ dirs' = dirs \cup WithParents(OUTPUT_DIR)
    /\ fs_ops' = Append(fs_ops, [op |-> "mkdir", path |-> OUTPUT_DIR])
    /\ pc' = "root"
    /\ UNCHANGED <<page, requests, responses, releases, wheels, packages,
                   root_html, next_pkg, files, exit_code, normVars>>

\* the root index
WriteRootIndex ==
    /\ pc = "root"
    /\ root_html' = generate_root_index(packages.keys)
    /\ files' = WriteText(files, PathJoin(OUTPUT_DIR, INDEX_HTML), root_html')
    /\ fs_ops' = Append(fs_ops, [op |-> "write_text",
                                 path |-> PathJoin(OUTPUT_DIR, INDEX_HTML)])
    /\ next_pkg' = 1
    /\ pc' = "packages"
    /\ UNCHANGED <<page, requests, responses, releases, wheels, packages, dirs,
                   exit_code, normVars>>

\* one turn of the package loop: mkdir the package directory, write its index
WritePackageIndex ==
    /\ pc = "packages"
    /\ next_pkg <= Len(packages.keys)
    /\ LET pkg_name == packages.keys[next_pkg]
           pkg_dir == PathJoin(OUTPUT_DIR, pkg_name)
           pkg_html == generate_package_index(pkg_name, packages.vals[pkg_name])
       IN  /\ dirs' = dirs \cup {pkg_dir}
           /\ files' = WriteText(files, PathJoin(pkg_dir, INDEX_HTML), pkg_html)
           /\ fs_ops' = fs_ops \o << [op |-> "mkdir", path |-> pkg_dir],
                                     [op |-> "write_text",
                                      path |-> PathJoin(pkg_dir, INDEX_HTML)] >>
    /\ next_pkg' = next_pkg + 1
    /\ UNCHANGED <<pc, page, requests, responses, releases, wheels, packages,
                   root_html, exit_code, normVars>>

\* the landing page, then `return 0`
WriteLandingPage ==
    /\ pc = "packages"
    /\ next_pkg > Len(packages.keys)
    /\ files' = WriteText(files, PathJoin(<<PUBLIC>>, INDEX_HTML),
                          generate_landing_page(packages, Len(wheels)))
    /\ fs_ops' = Append(fs_ops, [op |-> "write_text",
                                 path |-> PathJoin(<<PUBLIC>>, INDEX_HTML)])
    /\ pc' = "done"
    /\ exit_code' = 0
    /\ UNCHANGED <<page, requests, responses, releases, wheels, packages,
                   root_html, next_pkg, dirs, normVars>>

Next ==
    \/ FetchPageOk
    \/ FetchPageEmpty
    \/ FetchHTTPError
    \/ FetchURLError
    \/ ExtractStep
    \/ GroupStep
    \/ MkdirOutput
    \/ WriteRootIndex
    \/ WritePackageIndex
    \/ WriteLandingPage

Spec == Init /\ [][Next]_vars

(***************************************************************************)
(* normalize_name applied to every short string, once and twice.           *)
(***************************************************************************)
NormAlphabet == {"a", "B", "-", "_", "."}

FOO_BAR_BAZ ==
    <<"F", "o", "o", "_", "_", "B", "a", "r", ".", ".", "B", "a", "z">>

NormInputs == (SeqsUpTo(NormAlphabet, MaxLen) \ {<<>>}) \cup {FOO_BAR_BAZ}

InitNormalize ==
    /\ InitMain
    /\ nm_input \in NormInputs
    /\ nm_once = <<>>
    /\ nm_twice = <<>>
    /\ nm_calls = 0

NormalizeOnce ==
    /\ nm_calls = 0
    /\ nm_once' = normalize_name(nm_input)
    /\ nm_calls' = 1
    /\ UNCHANGED <<mainVars, nm_input, nm_twice>>

NormalizeTwice ==
    /\ nm_calls = 1
    /\ nm_twice' = normalize_name(nm_once)
    /\ nm_calls' = 2
    /\ UNCHANGED <<mainVars, nm_input, nm_once>>

NextNormalize == NormalizeOnce \/ NormalizeTwice

SpecNormalize == InitNormalize /\ [][NextNormalize]_vars

(***************************************************************************)
(* Helpers of the properties.                                              *)
(***************************************************************************)
Range(s) == {s[i] : i \in 1..Len(s)}

RECURSIVE ConcatData(_)
ConcatData(rs) ==
    IF rs = <<>> THEN <<>>
    ELSE ConcatData(SubSeq(rs, 1, Len(rs) - 1)) \o rs[Len(rs)].data

\* every page request so far was answered without an error
ErrorFree == \A i \in 1..Len(responses) : responses[i].kind = "ok"

\* get_all_releases has returned to main
FetchReturned == pc \notin {"fetch", "crashed"}

\* main has built the packages dict
Grouped == pc \in {"mkdir", "root", "packages"} \/ (pc = "done" /\ exit_code = 0)

FsUntouched == dirs = {} /\ DOMAIN files = {} /\ fs_ops = <<>>

HasNoHyphen(s) == \A i \in 1..Len(s) : s[i] # "-"

\* the assets of the releases with their release, in release order then asset order
RECURSIVE AssetsInOrder(_)
AssetsInOrder(rels) ==
    IF rels = <<>> THEN <<>>
    ELSE LET r == Head(rels)
             as == IF "assets" \in DOMAIN r THEN r.assets ELSE <<>>
         IN  [i \in 1..Len(as) |-> [asset |-> as[i], release |-> r]]
                 \o AssetsInOrder(Tail(rels))

\* wheel w is in the group of key k
InGroup(w, k) == HasKey(packages, k) /\ w \in Range(packages.vals[k])

\* no asset of the fetched releases has a name ending in ".whl"
NoWheelAsset ==
    \A i \in 1..Len(releases) :
        "assets" \in DOMAIN releases[i] =>
            \A j \in 1..Len(releases[i].assets) :
                ~EndsWith(releases[i].assets[j].name, <<".", "w", "h", "l">>)

\* every extracted wheel is in the list of exactly one key
EveryWheelInOneGroup ==
    \A i \in 1..Len(wheels) :
        Cardinality({k \in Range(packages.keys) : InGroup(wheels[i], k)}) = 1

Swap(s, i, j) ==
    [n \in 1..Len(s) |-> IF n = i THEN s[j] ELSE IF n = j THEN s[i] ELSE s[n]]

\* a path as the filesystem resolves it: empty components vanish
Resolve(path) == SelectSeq(path, LAMBDA c : c # <<>>)

HoldsFile(path, content) ==
    Resolve(path) \in DOMAIN files /\ files[Resolve(path)] = content

WrittenPaths == SelectSeq(fs_ops, LAMBDA o : o.op = "write_text")

FLASH_ATTN ==
    <<"f", "l", "a", "s", "h", "-", "a", "t", "t", "n">>
FLASH ==
    <<"f", "l", "a", "s", "h">>
A_DASH_WHL ==
    <<"a", "-", "w", "h", "l">>
FOO_BAR_BAZ_NORMALIZED ==
    <<"f", "o", "o", "-", "b", "a", "r", "-", "b", "a", "z">>

(***************************************************************************)
(* C1: the page requests are for pages 1, 2, ... in that order with        *)
(* per_page=100; when the API answered without errors and                  *)
(* get_all_releases has returned, the answers were k non-empty pages       *)
(* followed by one empty page (k+1 requests, none after the empty page)    *)
(* and the result is the concatenation of pages 1..k in page order.        *)
(***************************************************************************)
C1_Pagination ==
    /\ Len(requests) = Len(responses)
    /\ \A i \in 1..Len(requests) : requests[i] = [page |-> i, per_page |-> 100]
    /\ pc = "fetch" =>
          /\ \A i \in 1..Len(responses) :
                responses[i].kind = "ok" /\ responses[i].data # <<>>
          /\ releases = ConcatData(responses)
          /\ page = Len(requests) + 1
    /\ (FetchReturned /\ ErrorFree) =>
          LET n == Len(responses)
          IN  /\ n >= 1
              /\ responses[n].data = <<>>
              /\ \A i \in 1..(n - 1) : responses[i].data # <<>>
              /\ releases = ConcatData(SubSeq(responses, 1, n - 1))

\* C1, termination: every step lowers a natural number (the phase of main,
\* then the pages or packages left), so no run goes on for ever
Variant ==
    CASE pc = "fetch" -> 6000 + (MaxPages + 1 - Len(requests))
      [] pc = "extract" -> 5000
      [] pc = "group" -> 4000
      [] pc = "mkdir" -> 3000
      [] pc = "root" -> 2000
      [] pc = "packages" -> 1000 + (Len(packages.keys) + 1 - next_pkg)
      [] OTHER -> 0

C1_Progress == [][Variant' < Variant /\ Variant' >= 0]_vars

\* two non-empty pages and an empty third one: three requests, main returned
C1_Witness ==
    /\ pc = "done"
    /\ ErrorFree
    /\ Len(requests) = 3
    /\ Len(responses[1].data) = 2
    /\ Len(releases) = 3

(***************************************************************************)
(* C2: any transport or HTTP error on a page request stops pagination at   *)
(* once, get_all_releases returns exactly the releases of the earlier      *)
(* pages and no exception reaches the caller.                              *)
(***************************************************************************)
C2_ErrorsDegrade ==
    \A i \in 1..Len(responses) :
        responses[i].kind # "ok" =>
            /\ pc \notin {"fetch", "crashed"}
            /\ i = Len(responses)
            /\ releases = ConcatData(SubSeq(responses, 1, i - 1))

(***************************************************************************)
(* C3: when no asset of the fetched releases has a name ending in ".whl",  *)
(* main returns 1 and creates no directory and writes no file; nothing is  *)
(* created or written before the no-wheels check.                          *)
(***************************************************************************)
C3_NoWheelsNoOutput ==
    /\ pc \in {"fetch", "extract", "crashed"} => FsUntouched
    /\ (FetchReturned /\ NoWheelAsset) =>
          /\ FsUntouched
          /\ pc = "extract" \/ (pc = "done" /\ exit_code = 1)
    /\ (pc = "done" /\ exit_code = 1) => (wheels = <<>> /\ FsUntouched)

\* releases were fetched, none holds a wheel, main returned 1
C3_Witness ==
    /\ pc = "done"
    /\ exit_code = 1
    /\ Len(releases) >= 2
    /\ \E i \in 1..Len(releases) : releases[i] = Rel3

(***************************************************************************)
(* C4: after a run that extracted at least one wheel, main returned 0,     *)
(* public/simple/index.html holds the root index, public/index.html the    *)
(* landing page, public/simple/<name>/index.html the index of every        *)
(* package <name>, and no write of the run replaced another file of it.    *)
(***************************************************************************)
C4_FixedLayout ==
    (pc = "done" /\ wheels # <<>>) =>
        /\ exit_code = 0
        /\ HoldsFile(<<PUBLIC, SIMPLE, INDEX_HTML>>, root_html)
        /\ root_html = generate_root_index(packages.keys)
        /\ HoldsFile(<<PUBLIC, INDEX_HTML>>,
                     generate_landing_page(packages, Len(wheels)))
        /\ \A name \in {normalize_name(SplitFirst(w.filename)) : w \in Range(wheels)} :
              /\ HasKey(packages, name)
              /\ HoldsFile(<<PUBLIC, SIMPLE, name, INDEX_HTML>>,
                           generate_package_index(name, packages.vals[name]))
        /\ \A i, j \in 1..Len(WrittenPaths) :
              WrittenPaths[i].path = WrittenPaths[j].path => i = j

(***************************************************************************)
(* C5, as claimed: the wheels flash_attn-2.5.9-cp310-...whl and            *)
(* flash-attn-2.6.0-cp311-...whl both land in the single group             *)
(* flash-attn, and every wheel lands in exactly one group.                 *)
(***************************************************************************)
C5_AsClaimed ==
    Grouped =>
        /\ EveryWheelInOneGroup
        /\ \A i \in 1..Len(wheels) :
              wheels[i].filename \in {FA259, FA260} => InGroup(wheels[i], FLASH_ATTN)

(***************************************************************************)
(* C5, amended: two wheels whose first "-"-delimited filename segments     *)
(* normalize identically (they differ only in letter case and in runs of   *)
(* "_" and ".") land in the same group: flash_attn-2.5.9-...whl and        *)
(* Flash.Attn-2.7.0-...whl both land in flash-attn, while a "-" ends the   *)
(* segment, so flash-attn-2.6.0-...whl lands in flash; every wheel lands   *)
(* in exactly one group.                                                   *)
(***************************************************************************)
C5_SameFirstSegmentSameGroup ==
    Grouped =>
        /\ EveryWheelInOneGroup
        /\ \A i, j \in 1..Len(wheels) :
              normalize_name(SplitFirst(wheels[i].filename))
                    = normalize_name(SplitFirst(wheels[j].filename))
                 => \E k \in Range(packages.keys) :
                        InGroup(wheels[i], k) /\ InGroup(wheels[j], k)
        /\ \A i \in 1..Len(wheels) :
              /\ wheels[i].filename \in {FA259, FA270} => InGroup(wheels[i], FLASH_ATTN)
              /\ wheels[i].filename = FA260 => InGroup(wheels[i], FLASH)

\* the three flash wheels were grouped: two in flash-attn, one in flash
C5_Witness ==
    /\ pc = "done"
    /\ HasKey(packages, FLASH_ATTN)
    /\ HasKey(packages, FLASH)
    /\ {w.filename : w \in Range(packages.vals[FLASH_ATTN])} = {FA259, FA270}
    /\ {w.filename : w \in Range(packages.vals[FLASH])} = {FA260}

(***************************************************************************)
(* C6: extract_wheels returns one record per asset whose name ends in the  *)
(* case-sensitive suffix ".whl" and nothing else, in release order then    *)
(* asset order, each with the asset's name, URL, size (0 if absent) and    *)
(* the release's tag ("unknown" if absent); assets a.whl, a.tar.gz, b.WHL  *)
(* give the one record of a.whl.                                           *)
(***************************************************************************)
C6_ExtractWheels ==
    (FetchReturned /\ pc # "extract") =>
        LET kept == SelectSeq(AssetsInOrder(releases),
                        LAMBDA e : /\ Len(e.asset.name) >= 4
                                   /\ SubSeq(e.asset.name, Len(e.asset.name) - 3,
                                             Len(e.asset.name)) = <<".", "w", "h", "l">>)
        IN  /\ Len(wheels) = Len(kept)
            /\ \A i \in 1..Len(kept) :
                  /\ wheels[i].filename = kept[i].asset.name
                  /\ wheels[i].url = kept[i].asset.browser_download_url
                  /\ wheels[i].size = IF "size" \in DOMAIN kept[i].asset
                                      THEN kept[i].asset.size ELSE 0
                  /\ wheels[i].tag = IF "tag_name" \in DOMAIN kept[i].release
                                     THEN kept[i].release.tag_name ELSE UNKNOWN
            /\ releases = <<Rel1>> =>
                  wheels = << [filename |-> A_WHL, url |-> AssetUrl(TAG_V1, A_WHL),
                               size |-> 3, tag |-> TAG_V1] >>

\* a.whl, a.tar.gz, b.WHL, then a release without tag and an asset without size
C6_Witness ==
    /\ pc = "done"
    /\ releases = <<Rel1, Rel2>>
    /\ Len(wheels) = 3
    /\ wheels[3].size = 0
    /\ wheels[3].tag = UNKNOWN

(***************************************************************************)
(* C7: the package index of a group has one anchor per wheel of the        *)
(* group, ordered by filename ascending, and is the same for every         *)
(* permutation of the group's wheel list (every permutation is a product   *)
(* of transpositions).                                                     *)
(***************************************************************************)
C7_PackageIndexOrderFree ==
    Grouped =>
        \A k \in Range(packages.keys) :
            LET ws == packages.vals[k]
                doc == generate_package_index(k, ws)
            IN  /\ Len(doc.links) = Len(ws)
                /\ \A i \in 1..(Len(ws) - 1) :
                      ~StrLess(doc.links[i + 1].text, doc.links[i].text)
                /\ \A i, j \in 1..Len(ws) :
                      generate_package_index(k, Swap(ws, i, j)) = doc

(***************************************************************************)
(* C8: the root index of a run has exactly one anchor, href "<name>/",     *)
(* per distinct normalized package name among the extracted wheels, in     *)
(* strictly ascending order; that determines it from the set of names      *)
(* alone, whatever the order of the releases.                              *)
(***************************************************************************)
C8_RootIndex ==
    (pc = "packages" \/ (pc = "done" /\ exit_code = 0)) =>
        LET names == {normalize_name(SplitFirst(w.filename)) : w \in Range(wheels)}
            links == root_html.links
        IN  /\ Len(links) = Cardinality(names)
            /\ {links[i].text : i \in 1..Len(links)} = names
            /\ \A i \in 1..Len(links) : links[i].href = links[i].text \o <<"/">>
            /\ \A i \in 1..(Len(links) - 1) : StrLess(links[i].text, links[i + 1].text)

\* three packages whose order of insertion is not the sorted order
C8_Witness ==
    /\ pc = "done"
    /\ exit_code = 0
    /\ Len(root_html.links) >= 3
    /\ packages.keys # [i \in 1..Len(root_html.links) |-> root_html.links[i].text]

(***************************************************************************)
(* C9: normalize_name(normalize_name(x)) = normalize_name(x); the result   *)
(* has no uppercase letter, no "_", no "." and no two consecutive "-";     *)
(* Foo__Bar..Baz gives foo-bar-baz.                                        *)
(***************************************************************************)
C9_NormalizeIdempotent ==
    /\ nm_calls >= 1 =>
          /\ \A i \in 1..Len(nm_once) :
                /\ nm_once[i] \notin Range(UpperCase)
                /\ nm_once[i] \notin {"_", "."}
          /\ \A i \in 1..(Len(nm_once) - 1) :
                ~(nm_once[i] = "-" /\ nm_once[i + 1] = "-")
          /\ nm_input = FOO_BAR_BAZ => nm_once = FOO_BAR_BAZ_NORMALIZED
    /\ nm_calls = 2 => nm_twice = nm_once

\* both applications made to a string with runs of separators and capitals
C9_Witness ==
    /\ nm_calls = 2
    /\ nm_input = <<"B", "_", ".", "a">>
    /\ nm_twice = <<"b", "-", "a">>

(***************************************************************************)
(* C10, as claimed: a wheel whose filename has no "-" is grouped under     *)
(* the normalization of its stem, the filename without ".whl".             *)
(***************************************************************************)
C10_AsClaimed ==
    Grouped =>
        \A i \in 1..Len(wheels) :
            HasNoHyphen(wheels[i].filename) =>
                InGroup(wheels[i], normalize_name(SubSeq(wheels[i].filename, 1,
                                                  Len(wheels[i].filename) - 4)))

(***************************************************************************)
(* C10, amended: a wheel whose filename has no "-" is grouped under the    *)
(* normalization of the whole filename, ".whl" suffix included (a.whl is   *)
(* grouped under a-whl); no filename is rejected: every extracted wheel    *)
(* is in a group.                                                          *)
(***************************************************************************)
C10_WholeFilename ==
    Grouped =>
        /\ \A i \in 1..Len(wheels) :
              /\ \E k \in Range(packages.keys) : InGroup(wheels[i], k)
              /\ HasNoHyphen(wheels[i].filename) =>
                    InGroup(wheels[i], normalize_name(wheels[i].filename))
              /\ wheels[i].filename = A_WHL => InGroup(wheels[i], A_DASH_WHL)

\* a.whl was extracted and grouped under a-whl
C10_Witness ==
    /\ pc = "done"
    /\ HasKey(packages, A_DASH_WHL)
    /\ \E w \in Range(packages.vals[A_DASH_WHL]) : w.filename = A_WHL

=============================================================================
